---- MODULE Spec2Model ----
(***************************************************************************)
(* A model of the taxi-trip pipeline: load.py (ingestion), clean.py (the   *)
(* cleaner) and analysis.py (the extrema analyzer).  Tables are bags of    *)
(* rows, a SQL statement is an operator over bags, and each main() is a    *)
(* sequence of steps, each of which may raise.                             *)
(*                                                                         *)
(* Timestamps are whole hours counted from 2024-01-01 00:00, so            *)
(* TIMESTAMP '2024-01-01' is 0 and TIMESTAMP '2025-01-01' is 8784.         *)
(***************************************************************************)
EXTENDS Integers, Sequences, FiniteSets, Bags, TLC

VARIABLES
  prog,                    \* which script runs: "load", "clean", "analysis"
  pc,                      \* the position of main() in its try block
  con,                     \* the connection: "None", "open", "closed"
  exc,                     \* an exception was raised and caught in this run
  closeCalls,              \* the number of con.close() calls of this run
  ret,                     \* how main() came back to its caller
  run,                     \* the number of the cleaner run in progress
  yellow_trips_2024,       \* raw tables, as the loader left them
  green_trips_2024,
  yellow_trips_2024_clean, \* the cleaner's tables
  green_trips_2024_clean,
  trips_2024_clean,
  writer,                  \* history: the run that last wrote each cleaned table
  firstOut,                \* history: the cleaned tables when run 1 returned
  dupes,                   \* the cleaner's "duplicates remaining" count
  trips_features,          \* the features table the analyzer reads
  max_trips,               \* analysis: the result of MAX_TRIP_SQL
  stats,                   \* analysis: the heavy/light result being reported
  monthly,                 \* analysis: the result of MONTHLY_TOTALS_SQL
  pivot,                   \* analysis: the reshaped monthly frame
  bucket_col,              \* analysis: the bucket column of the query that gave stats
  executed,                \* history: the analysis queries that have returned
  color,                   \* load: the color load_one_color works on
  m,                       \* load: the month the current loop is at
  created_month,           \* load: the month the table was created from, 0 for None
  exists,                  \* load: whether each raw table exists
  months,                  \* load: the months each raw table holds, as a bag
  hist                     \* history of load_one_color, for each color: the month
                           \* its table was created from, the months an INSERT was
                           \* issued for, and whether the function has returned

cleanVars == <<run, yellow_trips_2024, green_trips_2024, yellow_trips_2024_clean,
               green_trips_2024_clean, trips_2024_clean, writer, firstOut, dupes>>
anaVars == <<trips_features, max_trips, stats, monthly, pivot, bucket_col, executed>>
loadVars == <<color, m, created_month, exists, months, hist>>
mainVars == <<prog, pc, con, exc, closeCalls, ret>>
vars == <<mainVars, cleanVars, anaVars, loadVars>>

----------------------------------------------------------------------------
(* Bounds of the model *)

\* the number of raw rows over both raw tables
MaxRows == 2

\* the number of rows of the features table
MaxFeatures == 3

\* the last month the loader asks for (the source asks for 12)
LastMonth == 3

----------------------------------------------------------------------------
(* Bags *)

RECURSIVE SumOver(_, _)
SumOver(S, B) ==
  IF S = {} THEN 0
  ELSE LET x == CHOOSE y \in S : TRUE IN B[x] + SumOver(S \ {x}, B)

Range(s) == {s[i] : i \in DOMAIN s}

BagOfSeq(s) == [r \in Range(s) |-> Cardinality({i \in DOMAIN s : s[i] = r})]

\* SELECT * FROM B WHERE row \in keep: every copy of a row is kept or dropped
Where(B, keep) == [x \in BagToSet(B) \cap keep |-> B[x]]

\* SELECT f[row] FROM B: every copy of a row gives a row
Select(B, f) ==
  [y \in {f[x] : x \in BagToSet(B)} |-> SumOver({x \in BagToSet(B) : f[x] = y}, B)]

----------------------------------------------------------------------------
(* clean.py *)

Colors == {"yellow", "green"}

ENFORCE_POSITIVE_ZONES == FALSE

YearStart == 0
YearEnd == 8784
MaxHours == 24
MaxDistance == 100
MinPassengers == 1
MaxPassengers == 6
MaxAmount == 1000

YellowCast(r) ==
  [pickup_datetime  |-> r.tpep_pickup_datetime,
   dropoff_datetime |-> r.tpep_dropoff_datetime,
   passenger_count  |-> r.passenger_count,
   trip_distance    |-> r.trip_distance,
   vendor_id        |-> r.VendorID,
   pu_location_id   |-> r.PULocationID,
   do_location_id   |-> r.DOLocationID,
   total_amount     |-> r.total_amount]

GreenCast(r) ==
  [pickup_datetime  |-> r.lpep_pickup_datetime,
   dropoff_datetime |-> r.lpep_dropoff_datetime,
   passenger_count  |-> r.passenger_count,
   trip_distance    |-> r.trip_distance,
   vendor_id        |-> r.VendorID,
   pu_location_id   |-> r.PULocationID,
   do_location_id   |-> r.DOLocationID,
   total_amount     |-> r.total_amount]

YellowInYear(r) ==
  r.tpep_pickup_datetime >= YearStart /\ r.tpep_pickup_datetime < YearEnd

GreenInYear(r) ==
  r.lpep_pickup_datetime >= YearStart /\ r.lpep_pickup_datetime < YearEnd

ZoneClause(r) ==
  ENFORCE_POSITIVE_ZONES => (r.pu_location_id > 0 /\ r.do_location_id > 0)

\* variant: trip_distance >= 0
FilterClauseZeroDistance(r) ==
  /\ r.pickup_datetime <= r.dropoff_datetime
  /\ r.dropoff_datetime - r.pickup_datetime >= 0
  /\ r.dropoff_datetime - r.pickup_datetime <= MaxHours
  /\ r.trip_distance >= 0 /\ r.trip_distance <= MaxDistance
  /\ r.passenger_count >= MinPassengers /\ r.passenger_count <= MaxPassengers
  /\ r.total_amount >= 0 /\ r.total_amount <= MaxAmount
  /\ ZoneClause(r)

\* the WHERE of the "filtered" CTE
FilterClause(r) ==
  /\ r.pickup_datetime <= r.dropoff_datetime
  /\ r.dropoff_datetime - r.pickup_datetime >= 0
  /\ r.dropoff_datetime - r.pickup_datetime <= MaxHours
  /\ r.trip_distance > 0 /\ r.trip_distance <= MaxDistance
  /\ r.passenger_count >= MinPassengers /\ r.passenger_count <= MaxPassengers
  /\ r.total_amount >= 0 /\ r.total_amount <= MaxAmount
  /\ ZoneClause(r)

\* variant: total_amount left out of the PARTITION BY list
PartitionKeyNoAmount(r) ==
  <<r.pickup_datetime, r.dropoff_datetime, r.trip_distance,
    r.pu_location_id, r.do_location_id, r.vendor_id, r.passenger_count>>

\* the PARTITION BY list of the QUALIFY clause
PartitionKey(r) ==
  <<r.pickup_datetime, r.dropoff_datetime, r.trip_distance,
    r.pu_location_id, r.do_location_id, r.vendor_id, r.total_amount,
    r.passenger_count>>

\* QUALIFY ROW_NUMBER() OVER (PARTITION BY key ORDER BY pickup_datetime) = 1.
\* Inside a partition the ORDER BY column may tie, and then the row numbered 1
\* is whichever the engine meets first: every row of the partition with the
\* least pickup_datetime is a possible pick.  The result is the set of the
\* tables the statement can produce.
QualifyRowNumberOne(B) ==
  LET rows == BagToSet(B)
      keys == {PartitionKey(r) : r \in rows}
      first(k) == {r \in rows : /\ PartitionKey(r) = k
                                /\ \A q \in rows : PartitionKey(q) = k =>
                                      r.pickup_datetime <= q.pickup_datetime}
      picks == {f \in [keys -> rows] : \A k \in keys : f[k] \in first(k)}
  IN  {[r \in {f[k] : k \in keys} |-> Cardinality({k \in keys : f[k] = r})] :
         f \in picks}

\* the "base" CTE of make_yellow_sql
YellowBase(raw) ==
  LET kept == {r \in BagToSet(raw) : YellowInYear(r)}
  IN  Select(Where(raw, kept), [r \in kept |-> YellowCast(r)])

\* the "base" CTE of make_green_sql
GreenBase(raw) ==
  LET kept == {r \in BagToSet(raw) : GreenInYear(r)}
  IN  Select(Where(raw, kept), [r \in kept |-> GreenCast(r)])

\* the "filtered" CTE
Filtered(base) == Where(base, {r \in BagToSet(base) : FilterClause(r)})

make_yellow_sql(raw) == QualifyRowNumberOne(Filtered(YellowBase(raw)))

make_green_sql(raw) == QualifyRowNumberOne(Filtered(GreenBase(raw)))

Tag(c, r) ==
  [color |-> c,
   pickup_datetime  |-> r.pickup_datetime,
   dropoff_datetime |-> r.dropoff_datetime,
   passenger_count  |-> r.passenger_count,
   trip_distance    |-> r.trip_distance,
   vendor_id        |-> r.vendor_id,
   pu_location_id   |-> r.pu_location_id,
   do_location_id   |-> r.do_location_id,
   total_amount     |-> r.total_amount]

\* SELECT 'yellow' AS color, * ... UNION ALL SELECT 'green' AS color, * ...
COMBINE_SQL(y, g) ==
  Select(y, [r \in BagToSet(y) |-> Tag("yellow", r)])
    (+) Select(g, [r \in BagToSet(g) |-> Tag("green", r)])

\* variant: INSERT INTO the table that is already there
InsertInto(old, new) == old (+) new

\* CREATE OR REPLACE TABLE t AS ...: the old content of t is gone
CreateOrReplace(old, new) == new

\* the cleaner's last query: SUM(c-1) over the groups of (color, key) with c > 1
DupesQuery(B) ==
  SumOver({r \in BagToSet(B) : B[r] > 1}, [r \in BagToSet(B) |-> B[r] - 1])

\* variant: the finally block without its close
FinallyNoClose(c) == c

\* finally: if con is not None: con.close()
FinallyClose(c) == IF c # "None" THEN "closed" ELSE c

----------------------------------------------------------------------------
(* The raw rows the model draws from: one valid row, rows that differ from *)
(* it in one field, and rows at and just past each bound of the filter.    *)

Fields(pu, do, pass, dist, v, tot) ==
  [pickup |-> pu, dropoff |-> do, passengers |-> pass, distance |-> dist,
   vendor |-> v, amount |-> tot]

SampleFields ==
  { Fields(10, 11, 1, 1, 1, 10),      \* the valid row
    Fields(10, 11, 1, 1, 1, 11),      \* differs in total_amount only
    Fields(10, 11, 1, 1, 2, 10),      \* differs in vendor only
    Fields(10, 10, 1, 1, 1, 10),      \* duration zero
    Fields(10,  9, 1, 1, 1, 10),      \* dropoff before pickup
    Fields(10, 34, 6, 100, 1, 1000),  \* every upper bound met
    Fields(10, 35, 1, 1, 1, 10),      \* 25 hours
    Fields(10, 11, 0, 1, 1, 10),      \* no passenger
    Fields(10, 11, 7, 1, 1, 10),      \* seven passengers
    Fields(10, 11, 1, 0, 1, 10),      \* no distance
    Fields(10, 11, 1, 101, 1, 10),    \* 101 miles
    Fields(10, 11, 1, 1, 1, -1),      \* negative amount
    Fields(10, 11, 1, 1, 1, 1001),    \* amount over the bound
    Fields(0, 1, 1, 1, 1, 0),         \* first hour of 2024, amount 0
    Fields(-1, 0, 1, 1, 1, 10),       \* last hour of 2023
    Fields(8783, 8784, 1, 1, 1, 10),  \* last hour of 2024
    Fields(8784, 8785, 1, 1, 1, 10) } \* first hour of 2025

YellowRow(x) ==
  [tpep_pickup_datetime |-> x.pickup, tpep_dropoff_datetime |-> x.dropoff,
   passenger_count |-> x.passengers, trip_distance |-> x.distance,
   VendorID |-> x.vendor, PULocationID |-> 1, DOLocationID |-> 1,
   total_amount |-> x.amount]

GreenRow(x) ==
  [lpep_pickup_datetime |-> x.pickup, lpep_dropoff_datetime |-> x.dropoff,
   passenger_count |-> x.passengers, trip_distance |-> x.distance,
   VendorID |-> x.vendor, PULocationID |-> 1, DOLocationID |-> 1,
   total_amount |-> x.amount]

YellowUniverse == {YellowRow(x) : x \in SampleFields}
GreenUniverse == {GreenRow(x) : x \in SampleFields}

\* the bags of exactly n rows of U
BagsOf(U, n) == {BagOfSeq(s) : s \in [1..n -> U]}

----------------------------------------------------------------------------
(* clean.py: main() *)

InitMain(p) ==
  /\ prog = p
  /\ pc = "start"
  /\ con = "None"
  /\ exc = FALSE
  /\ closeCalls = 0
  /\ ret = "running"

\* load_one_color has not been called for either color
NoHistory == [c \in Colors |-> [created |-> 0, inserts |-> EmptyBag, returned |-> FALSE]]

\* the variables of a script that is not the one running
CleanIdle ==
  /\ run = 1
  /\ yellow_trips_2024 = EmptyBag
  /\ green_trips_2024 = EmptyBag
  /\ yellow_trips_2024_clean = EmptyBag
  /\ green_trips_2024_clean = EmptyBag
  /\ trips_2024_clean = EmptyBag
  /\ writer = [yellow |-> 0, green |-> 0, trips |-> 0]
  /\ firstOut = [yellow |-> EmptyBag, green |-> EmptyBag, trips |-> EmptyBag,
                 ok |-> FALSE]
  /\ dupes = 0

AnaIdle ==
  /\ trips_features = EmptyBag
  /\ max_trips = {}
  /\ stats = {}
  /\ monthly = {}
  /\ pivot = <<>>
  /\ bucket_col = ""
  /\ executed = {}

LoadIdle ==
  /\ color = "yellow"
  /\ m = 1
  /\ created_month = 0
  /\ exists = [yellow |-> FALSE, green |-> FALSE]
  /\ months = [yellow |-> EmptyBag, green |-> EmptyBag]
  /\ hist = NoHistory

InitClean ==
  /\ InitMain("clean")
  /\ run = 1
  /\ \E ny \in 0..MaxRows : \E ng \in 0..(MaxRows - ny) :
       /\ yellow_trips_2024 \in BagsOf(YellowUniverse, ny)
       /\ green_trips_2024 \in BagsOf(GreenUniverse, ng)
  /\ yellow_trips_2024_clean = EmptyBag
  /\ green_trips_2024_clean = EmptyBag
  /\ trips_2024_clean = EmptyBag
  /\ writer = [yellow |-> 0, green |-> 0, trips |-> 0]
  /\ firstOut = [yellow |-> EmptyBag, green |-> EmptyBag, trips |-> EmptyBag,
                 ok |-> FALSE]
  /\ dupes = 0
  /\ AnaIdle
  /\ LoadIdle

\* the statement of the current step raises: control goes to the except clause
Raise ==
  /\ pc' = "except"
  /\ exc' = TRUE

\* con = duckdb.connect(DB_FILE, read_only=False)
CleanConnect ==
  /\ prog = "clean" /\ pc = "start"
  /\ \/ con' = "open" /\ pc' = "yellow" /\ exc' = exc
     \/ con' = con /\ Raise
  /\ UNCHANGED <<prog, closeCalls, ret, cleanVars, anaVars, loadVars>>

\* con.execute(make_yellow_sql(zone_clause)), then the COUNT(*) that is logged
CleanYellow ==
  /\ prog = "clean" /\ pc = "yellow"
  /\ \/ Raise /\ UNCHANGED <<yellow_trips_2024_clean, writer>>
     \/ /\ \E t \in make_yellow_sql(yellow_trips_2024) :
             yellow_trips_2024_clean' = CreateOrReplace(yellow_trips_2024_clean, t)
        /\ writer' = [writer EXCEPT !.yellow = run]
        /\ \/ pc' = "green" /\ exc' = exc
           \/ Raise
  /\ UNCHANGED <<prog, con, closeCalls, ret, run, yellow_trips_2024, green_trips_2024,
                 green_trips_2024_clean, trips_2024_clean, firstOut, dupes, anaVars, loadVars>>

\* con.execute(make_green_sql(zone_clause)), then the COUNT(*) that is logged
CleanGreen ==
  /\ prog = "clean" /\ pc = "green"
  /\ \/ Raise /\ UNCHANGED <<green_trips_2024_clean, writer>>
     \/ /\ \E t \in make_green_sql(green_trips_2024) :
             green_trips_2024_clean' = CreateOrReplace(green_trips_2024_clean, t)
        /\ writer' = [writer EXCEPT !.green = run]
        /\ \/ pc' = "combine" /\ exc' = exc
           \/ Raise
  /\ UNCHANGED <<prog, con, closeCalls, ret, run, yellow_trips_2024, green_trips_2024,
                 yellow_trips_2024_clean, trips_2024_clean, firstOut, dupes, anaVars, loadVars>>

\* con.execute(COMBINE_SQL)
CleanCombine ==
  /\ prog = "clean" /\ pc = "combine"
  /\ \/ Raise /\ UNCHANGED <<trips_2024_clean, writer>>
     \/ /\ trips_2024_clean' =
             CreateOrReplace(trips_2024_clean,
                             COMBINE_SQL(yellow_trips_2024_clean, green_trips_2024_clean))
        /\ writer' = [writer EXCEPT !.trips = run]
        /\ pc' = "report" /\ exc' = exc
  /\ UNCHANGED <<prog, con, closeCalls, ret, run, yellow_trips_2024, green_trips_2024,
                 yellow_trips_2024_clean, green_trips_2024_clean, firstOut, dupes, anaVars, loadVars>>

\* the four read-only queries of the validation report, the last one "dupes"
CleanReport ==
  /\ prog = "clean" /\ pc = "report"
  /\ \/ Raise /\ dupes' = dupes
     \/ /\ dupes' = DupesQuery(trips_2024_clean)
        /\ pc' = "finally" /\ exc' = exc
  /\ UNCHANGED <<prog, con, closeCalls, ret, run, yellow_trips_2024, green_trips_2024,
                 yellow_trips_2024_clean, green_trips_2024_clean, trips_2024_clean,
                 writer, firstOut, anaVars, loadVars>>

\* except Exception as e: log.error("Cleaning failed: %s", e)
CleanExcept ==
  /\ prog = "clean" /\ pc = "except"
  /\ pc' = "finally"
  /\ UNCHANGED <<prog, con, exc, closeCalls, ret, cleanVars, anaVars, loadVars>>

\* finally: close the connection if there is one; main() then returns None
CleanFinally ==
  /\ prog = "clean" /\ pc = "finally"
  /\ con' = FinallyClose(con)
  /\ closeCalls' = IF con # "None" THEN closeCalls + 1 ELSE closeCalls
  /\ pc' = "done"
  /\ ret' = "None"
  /\ firstOut' = IF run = 1
                 THEN [yellow |-> yellow_trips_2024_clean,
                       green |-> green_trips_2024_clean,
                       trips |-> trips_2024_clean, ok |-> ~exc]
                 ELSE firstOut
  /\ UNCHANGED <<prog, exc, run, yellow_trips_2024, green_trips_2024,
                 yellow_trips_2024_clean, green_trips_2024_clean, trips_2024_clean,
                 writer, dupes, anaVars, loadVars>>

\* the script is started a second time on the same store
CleanAgain ==
  /\ prog = "clean" /\ pc = "done" /\ run = 1
  /\ run' = 2
  /\ pc' = "start"
  /\ con' = "None"
  /\ exc' = FALSE
  /\ closeCalls' = 0
  /\ ret' = "running"
  /\ UNCHANGED <<prog, yellow_trips_2024, green_trips_2024, yellow_trips_2024_clean,
                 green_trips_2024_clean, trips_2024_clean, writer, firstOut, dupes, anaVars, loadVars>>

NextClean ==
  \/ CleanConnect
  \/ CleanYellow
  \/ CleanGreen
  \/ CleanCombine
  \/ CleanReport
  \/ CleanExcept
  \/ CleanFinally
  \/ CleanAgain

SpecClean == InitClean /\ [][NextClean]_vars

----------------------------------------------------------------------------
(* analysis.py: the queries *)

RECURSIVE Gcd(_, _)
Gcd(a, b) == IF b = 0 THEN a ELSE Gcd(b, a % b)

\* AVG(trip_co2_kgs) of a group: the sum over the count, in lowest terms, so
\* that equal averages are equal values
Avg(sum, cnt) ==
  LET g == Gcd(sum, cnt) IN [num |-> sum \div g, den |-> cnt \div g]

AvgLeq(a, b) == a.num * b.den <= b.num * a.den

\* An ORDER BY over the rows S is the set of the pairs <<r, q>> in which r may
\* sort before q; rows that tie on the ORDER BY expression are paired both ways.

\* variant: the light ranking ordered like the heavy one
LightOrderDesc(S) == {p \in S \X S : AvgLeq(p[2].avg_co2, p[1].avg_co2)}

\* ORDER BY avg_co2 DESC
HeavyOrder(S) == {p \in S \X S : AvgLeq(p[2].avg_co2, p[1].avg_co2)}

\* ORDER BY avg_co2 ASC
LightOrder(S) == {p \in S \X S : AvgLeq(p[1].avg_co2, p[2].avg_co2)}

\* variant: ORDER BY trip_co2_kgs, ascending
MaxTripOrderAsc(S) == {p \in S \X S : p[1].trip_co2_kgs <= p[2].trip_co2_kgs}

\* ORDER BY trip_co2_kgs DESC
MaxTripOrder(S) == {p \in S \X S : p[1].trip_co2_kgs >= p[2].trip_co2_kgs}

\* The rows of partition S that ROW_NUMBER() may number 1 under an ORDER BY:
\* those no other row must sort before.  Among rows that tie on the ORDER BY
\* expression the engine is free.
RowNumberOne(S, order) == {r \in S : \A q \in S : <<r, q>> \in order}

\* One row numbered 1 for each color of S, in every way the engine may pick
PickPerColor(S, order) ==
  LET cs == {r.color : r \in S}
  IN  {f \in [cs -> S] :
         \A c \in cs : f[c] \in RowNumberOne({r \in S : r.color = c}, order)}

\* MAX_TRIP_SQL: the possible results, each a set of rows
MAX_TRIP_SQL(F) ==
  LET ranked == {[color |-> r.color, pickup_datetime |-> r.pickup_datetime,
                  trip_co2_kgs |-> r.trip_co2_kgs] : r \in BagToSet(F)}
  IN  {{f[c] : c \in DOMAIN f} : f \in PickPerColor(ranked, MaxTripOrder(ranked))}

\* the "agg" CTE: AVG(trip_co2_kgs) GROUP BY color, bucket
Agg(F, col) ==
  LET rows == BagToSet(F)
      groups == {<<r.color, r[col]>> : r \in rows}
      members(g) == {r \in rows : r.color = g[1] /\ r[col] = g[2]}
  IN  {[color |-> g[1], bucket |-> g[2],
        avg_co2 |-> Avg(SumOver(members(g), [r \in rows |-> F[r] * r.trip_co2_kgs]),
                        SumOver(members(g), F))] : g \in groups}

Kind(k, a) == [kind |-> k, color |-> a.color, bucket |-> a.bucket, avg_co2 |-> a.avg_co2]

\* HEAVY_LIGHT_TEMPLATE for one bucket column: the possible results
HEAVY_LIGHT_TEMPLATE(F, col) ==
  LET agg == Agg(F, col)
  IN  {{Kind("heavy", h[c]) : c \in DOMAIN h} \cup {Kind("light", l[c]) : c \in DOMAIN l} :
         h \in PickPerColor(agg, HeavyOrder(agg)), l \in PickPerColor(agg, LightOrder(agg))}

\* MONTHLY_TOTALS_SQL: SUM(trip_co2_kgs) GROUP BY color, month_of_year
MONTHLY_TOTALS_SQL(F) ==
  LET rows == BagToSet(F)
      groups == {<<r.color, r.month_of_year>> : r \in rows}
      members(g) == {r \in rows : r.color = g[1] /\ r.month_of_year = g[2]}
  IN  {[color |-> g[1], month |-> g[2],
        total_co2_kg |-> SumOver(members(g), [r \in rows |-> F[r] * r.trip_co2_kgs])] :
         g \in groups}

\* a cell of a frame: a number, or NaN
Num(x) == [nan |-> FALSE, val |-> x]
NaN == [nan |-> TRUE, val |-> 0]

\* monthly_df.pivot(index="month", columns="color", values="total_co2_kg"):
\* a row for each month and a column for each color of the frame, and NaN
\* where the frame has no row for the pair
Pivot(df) ==
  [mo \in {r.month : r \in df} |->
     [c \in {r.color : r \in df} |->
        IF \E r \in df : r.month = mo /\ r.color = c
        THEN Num((CHOOSE r \in df : r.month = mo /\ r.color = c).total_co2_kg)
        ELSE NaN]]

\* .reindex(range(1,13), fill_value=0.0): the rows of the new index; a row the
\* frame has is kept as it is, a row it lacks is filled with the fill value
Reindex(frame, index, columns) ==
  [mo \in index |-> IF mo \in DOMAIN frame THEN frame[mo] ELSE [c \in columns |-> Num(0)]]

PlotMonths == 1..12

\* the first statement of make_monthly_plot
PivotReindex(df) == Reindex(Pivot(df), PlotMonths, {r.color : r \in df})

\* report_bucket: the .iloc[0] of an empty selection raises IndexError
ReportBucketRaises(df) ==
  \E c \in {r.color : r \in df} :
     \/ ~ \E r \in df : r.color = c /\ r.kind = "heavy"
     \/ ~ \E r \in df : r.color = c /\ r.kind = "light"

----------------------------------------------------------------------------
(* The feature rows the model draws from: three pickups with the buckets   *)
(* derived from them, three emission values, two colors.                   *)

Pickup(ts, h, d, w, mo) ==
  [pickup |-> ts, hour |-> h, dow |-> d, week |-> w, month |-> mo]

SamplePickups ==
  { Pickup(1440, 0, 5, 9, 3),     \* Fri 2024-03-01 00:00
    Pickup(1441, 1, 5, 9, 3),     \* Fri 2024-03-01 01:00
    Pickup(4370, 2, 1, 27, 7) }   \* Mon 2024-07-01 02:00

SampleEmissions == {2, 5, 10}

FeatureUniverse ==
  {[color |-> c, pickup_datetime |-> p.pickup, trip_co2_kgs |-> e,
    hour_of_day |-> p.hour, day_of_week |-> p.dow, week_of_year |-> p.week,
    month_of_year |-> p.month] : c \in Colors, p \in SamplePickups, e \in SampleEmissions}

----------------------------------------------------------------------------
(* analysis.py: main() *)

BucketCols == <<"hour_of_day", "day_of_week", "week_of_year", "month_of_year">>

InitAnalysis ==
  /\ InitMain("analysis")
  /\ \E n \in 0..MaxFeatures : trips_features \in BagsOf(FeatureUniverse, n)
  /\ max_trips = {}
  /\ stats = {}
  /\ monthly = {}
  /\ pivot = <<>>
  /\ bucket_col = ""
  /\ executed = {}
  /\ CleanIdle
  /\ LoadIdle

\* con = duckdb.connect(DB_FILE, read_only=True)
AnalysisConnect ==
  /\ prog = "analysis" /\ pc = "start"
  /\ \/ con' = "open" /\ pc' = "max_trips" /\ exc' = exc
     \/ con' = con /\ Raise
  /\ UNCHANGED <<prog, closeCalls, ret, cleanVars, anaVars, loadVars>>

\* (1) max_trips = con.execute(MAX_TRIP_SQL).fetchdf(), then the loop that prints it
AnalysisMaxTrips ==
  /\ prog = "analysis" /\ pc = "max_trips"
  /\ \/ Raise /\ UNCHANGED <<max_trips, executed>>
     \/ /\ max_trips' \in MAX_TRIP_SQL(trips_features)
        /\ executed' = executed \cup {"max_trips"}
        /\ pc' = BucketCols[1] /\ exc' = exc
  /\ UNCHANGED <<prog, con, closeCalls, ret, cleanVars, trips_features, stats,
                 monthly, pivot, bucket_col, loadVars>>

\* (2)-(5) the heavy/light query of bucket column i, then report_bucket on it
AnalysisBucket(i) ==
  /\ prog = "analysis" /\ pc = BucketCols[i]
  /\ \/ Raise /\ UNCHANGED <<stats, bucket_col, executed>>
     \/ /\ stats' \in HEAVY_LIGHT_TEMPLATE(trips_features, BucketCols[i])
        /\ bucket_col' = BucketCols[i]
        /\ executed' = executed \cup {"heavy_light"}
        /\ IF ReportBucketRaises(stats')
           THEN Raise
           ELSE /\ pc' = IF i < Len(BucketCols) THEN BucketCols[i + 1] ELSE "plot"
                /\ exc' = exc
  /\ UNCHANGED <<prog, con, closeCalls, ret, cleanVars, trips_features, max_trips,
                 monthly, pivot, loadVars>>

\* (6) monthly = con.execute(MONTHLY_TOTALS_SQL).fetchdf(); make_monthly_plot
AnalysisPlot ==
  /\ prog = "analysis" /\ pc = "plot"
  /\ \/ Raise /\ UNCHANGED <<monthly, pivot, executed>>
     \/ /\ monthly' = MONTHLY_TOTALS_SQL(trips_features)
        /\ pivot' = PivotReindex(monthly')
        /\ executed' = executed \cup {"monthly"}
        /\ \/ pc' = "finally" /\ exc' = exc
           \/ Raise
  /\ UNCHANGED <<prog, con, closeCalls, ret, cleanVars, trips_features, max_trips,
                 stats, bucket_col, loadVars>>

\* except Exception as e: print and log "Analysis failed"
AnalysisExcept ==
  /\ prog = "analysis" /\ pc = "except"
  /\ pc' = "finally"
  /\ UNCHANGED <<prog, con, exc, closeCalls, ret, cleanVars, anaVars, loadVars>>

\* finally: close the connection if there is one; main() then returns None
AnalysisFinally ==
  /\ prog = "analysis" /\ pc = "finally"
  /\ con' = FinallyClose(con)
  /\ closeCalls' = IF con # "None" THEN closeCalls + 1 ELSE closeCalls
  /\ pc' = "done"
  /\ ret' = "None"
  /\ UNCHANGED <<prog, exc, cleanVars, anaVars, loadVars>>

NextAnalysis ==
  \/ AnalysisConnect
  \/ AnalysisMaxTrips
  \/ \E i \in DOMAIN BucketCols : AnalysisBucket(i)
  \/ AnalysisPlot
  \/ AnalysisExcept
  \/ AnalysisFinally

SpecAnalysis == InitAnalysis /\ [][NextAnalysis]_vars

----------------------------------------------------------------------------
(* load.py *)

MONTHS == 1..LastMonth

\* variant: no month is skipped
AppendSkipsNothing(mo, skip_month) == FALSE

\* append_remaining_months: if skip_month is not None and m == skip_month: continue
AppendSkips(mo, skip_month) == skip_month # 0 /\ mo = skip_month

\* what a previous load left in the store: nothing, or a complete table
InitLoad ==
  /\ InitMain("load")
  /\ color = "yellow"
  /\ m = 1
  /\ created_month = 0
  /\ exists \in [Colors -> BOOLEAN]
  /\ months = [c \in Colors |-> IF exists[c] THEN SetToBag(MONTHS) ELSE EmptyBag]
  /\ hist = NoHistory
  /\ CleanIdle
  /\ AnaIdle

\* con = duckdb.connect(database=DB_FILE, read_only=False)
LoadConnect ==
  /\ prog = "load" /\ pc = "start"
  /\ \/ con' = "open" /\ pc' = "httpfs" /\ exc' = exc
     \/ con' = con /\ Raise
  /\ UNCHANGED <<prog, closeCalls, ret, cleanVars, anaVars, loadVars>>

\* install_httpfs(con)
LoadHttpfs ==
  /\ prog = "load" /\ pc = "httpfs"
  /\ \/ pc' = "drop" /\ exc' = exc
     \/ Raise
  /\ UNCHANGED <<prog, con, closeCalls, ret, cleanVars, anaVars, loadVars>>

\* load_one_color: DROP TABLE IF EXISTS, then the create loop starts at January
LoadDrop ==
  /\ prog = "load" /\ pc = "drop"
  /\ \/ Raise /\ UNCHANGED <<exists, months, m, created_month>>
     \/ /\ exists' = [exists EXCEPT ![color] = FALSE]
        /\ months' = [months EXCEPT ![color] = EmptyBag]
        /\ m' = 1
        /\ created_month' = 0
        /\ pc' = "create" /\ exc' = exc
  /\ UNCHANGED <<prog, con, closeCalls, ret, cleanVars, anaVars, color, hist>>

\* leaving load_one_color: the next color, or "Load stage complete."
AfterColor == IF color = "yellow" THEN "drop" ELSE "finally"
NextColor == IF color = "yellow" THEN "green" ELSE color

\* create_from_first_available_month: one turn of its loop.  The fetch of month
\* m succeeds, the table is created from it and the function returns m; or it
\* fails, and the loop goes on; after the last month the function returns None
\* and load_one_color returns.
LoadCreate ==
  /\ prog = "load" /\ pc = "create"
  /\ \/ /\ exists' = [exists EXCEPT ![color] = TRUE]
        /\ months' = [months EXCEPT ![color] = SetToBag({m})]
        /\ created_month' = m
        /\ hist' = [hist EXCEPT ![color].created = m]
        /\ m' = 1
        /\ pc' = "append"
        /\ color' = color
     \/ /\ UNCHANGED <<exists, months, created_month>>
        /\ IF m < LastMonth
           THEN m' = m + 1 /\ pc' = pc /\ color' = color /\ hist' = hist
           ELSE /\ m' = 1 /\ pc' = AfterColor /\ color' = NextColor
                /\ hist' = [hist EXCEPT ![color].returned = TRUE]
  /\ UNCHANGED <<prog, con, exc, closeCalls, ret, cleanVars, anaVars>>

\* append_remaining_months: one turn of its loop.  The created month is
\* skipped; the INSERT of another month succeeds or fails and is passed over.
LoadAppend ==
  /\ prog = "load" /\ pc = "append"
  /\ IF AppendSkips(m, created_month)
     THEN UNCHANGED <<months, hist>>
     ELSE /\ hist' = [hist EXCEPT ![color].inserts = @ (+) SetToBag({m})]
          /\ \/ months' = [months EXCEPT ![color] = @ (+) SetToBag({m})]
             \/ months' = months
  /\ IF m < LastMonth
     THEN m' = m + 1 /\ pc' = pc
     ELSE m' = 1 /\ pc' = "count"
  /\ UNCHANGED <<prog, con, exc, closeCalls, ret, cleanVars, anaVars, color,
                 created_month, exists>>

\* cnt = con.execute("SELECT COUNT(*) ..."), the last statement of load_one_color
LoadCount ==
  /\ prog = "load" /\ pc = "count"
  /\ \/ /\ pc' = AfterColor /\ color' = NextColor /\ exc' = exc
        /\ hist' = [hist EXCEPT ![color].returned = TRUE]
     \/ Raise /\ color' = color /\ hist' = hist
  /\ UNCHANGED <<prog, con, closeCalls, ret, cleanVars, anaVars, m, created_month,
                 exists, months>>

\* except Exception as e: print "An error occurred"
LoadExcept ==
  /\ prog = "load" /\ pc = "except"
  /\ pc' = "finally"
  /\ UNCHANGED <<prog, con, exc, closeCalls, ret, cleanVars, anaVars, loadVars>>

\* finally: close the connection if there is one; the function returns None
LoadFinally ==
  /\ prog = "load" /\ pc = "finally"
  /\ con' = FinallyClose(con)
  /\ closeCalls' = IF con # "None" THEN closeCalls + 1 ELSE closeCalls
  /\ pc' = "done"
  /\ ret' = "None"
  /\ UNCHANGED <<prog, exc, cleanVars, anaVars, loadVars>>

NextLoad ==
  \/ LoadConnect
  \/ LoadHttpfs
  \/ LoadDrop
  \/ LoadCreate
  \/ LoadAppend
  \/ LoadCount
  \/ LoadExcept
  \/ LoadFinally

SpecLoad == InitLoad /\ [][NextLoad]_vars

----------------------------------------------------------------------------
(* The three scripts, each run on its own *)

Init == InitLoad \/ InitClean \/ InitAnalysis

Next == NextLoad \/ NextClean \/ NextAnalysis

Spec == Init /\ [][Next]_vars

----------------------------------------------------------------------------
(* Properties of the cleaner *)

\* the dedup key: (pickup, dropoff, distance, pickup_zone, dropoff_zone,
\* vendor_id, total_amount, passenger_count)
DedupKey(r) ==
  <<r.pickup_datetime, r.dropoff_datetime, r.trip_distance, r.pu_location_id,
    r.do_location_id, r.vendor_id, r.total_amount, r.passenger_count>>

\* the raw rows, under their canonical names, that pass the validity filter
ValidYellow == Filtered(YellowBase(yellow_trips_2024))

ValidGreen == Filtered(GreenBase(green_trips_2024))

RowsWithKey(B, k) == SumOver({r \in BagToSet(B) : DedupKey(r) = k}, B)

OneRowPerKey(clean, valid) ==
  /\ \A v \in BagToSet(valid) : RowsWithKey(clean, DedupKey(v)) = 1
  /\ \A r \in BagToSet(clean) : \E v \in BagToSet(valid) : DedupKey(v) = DedupKey(r)

\* C1: a cleaned table holds exactly one row for each dedup key that occurs
\* among the raw rows passing the validity filter, never two and never none,
\* and the combined table never holds two rows with the same (color, dedup key).
C1_OneRowPerDedupKey ==
  /\ writer.yellow > 0 => OneRowPerKey(yellow_trips_2024_clean, ValidYellow)
  /\ writer.green > 0 => OneRowPerKey(green_trips_2024_clean, ValidGreen)
  /\ writer.trips > 0 =>
       \A r \in BagToSet(trips_2024_clean) :
          SumOver({q \in BagToSet(trips_2024_clean) :
                     q.color = r.color /\ DedupKey(q) = DedupKey(r)},
                  trips_2024_clean) = 1

\* C1 witness: the combined table was built from a raw table that held the
\* same valid row more than once, and holds that row once
C1_Witness ==
  /\ writer.trips > 0
  /\ \E v \in BagToSet(ValidYellow) :
        /\ ValidYellow[v] >= 2
        /\ CopiesIn(v, yellow_trips_2024_clean) = 1
        /\ CopiesIn(Tag("yellow", v), trips_2024_clean) = 1

Duration(r) == r.dropoff_datetime - r.pickup_datetime

\* the validity invariants as the specification states them
ValidAsClaimed(r) ==
  /\ r.pickup_datetime <= r.dropoff_datetime
  /\ 0 < Duration(r) /\ Duration(r) <= 24
  /\ 0 < r.trip_distance /\ r.trip_distance <= 100
  /\ 1 <= r.passenger_count /\ r.passenger_count <= 6
  /\ 0 <= r.total_amount /\ r.total_amount <= 1000
  /\ 0 <= r.pickup_datetime /\ r.pickup_datetime < 8784

\* the same, with a duration of zero allowed
ValidAmended(r) ==
  /\ r.pickup_datetime <= r.dropoff_datetime
  /\ 0 <= Duration(r) /\ Duration(r) <= 24
  /\ 0 < r.trip_distance /\ r.trip_distance <= 100
  /\ 1 <= r.passenger_count /\ r.passenger_count <= 6
  /\ 0 <= r.total_amount /\ r.total_amount <= 1000
  /\ 0 <= r.pickup_datetime /\ r.pickup_datetime < 8784

\* the raw rows of a color, under their canonical names
RawRows(c) ==
  IF c = "yellow" THEN {YellowCast(r) : r \in BagToSet(yellow_trips_2024)}
  ELSE {GreenCast(r) : r \in BagToSet(green_trips_2024)}

\* the rows of a color in the cleaned tables the cleaner has written
CleanedRows(c) ==
  (IF writer[c] = 0 THEN {}
   ELSE IF c = "yellow" THEN BagToSet(yellow_trips_2024_clean)
   ELSE BagToSet(green_trips_2024_clean))
  \cup
  (IF writer.trips = 0 THEN {}
   ELSE {[f \in DOMAIN r \ {"color"} |-> r[f]] :
           r \in {q \in BagToSet(trips_2024_clean) : q.color = c}})

\* C2, as stated: every cleaned row has pickup <= dropoff, 0 < duration <= 24h,
\* 0 < distance <= 100, 1 <= passenger_count <= 6, 0 <= total_amount <= 1000 and
\* a pickup in 2024, and a raw row violating any clause, a duration of exactly
\* zero included, is absent from the cleaned tables.
C2_ValidityAsClaimed ==
  \A c \in Colors :
     /\ \A r \in CleanedRows(c) : ValidAsClaimed(r)
     /\ \A r \in RawRows(c) : ~ValidAsClaimed(r) => r \notin CleanedRows(c)

\* C2, amended: the same with 0 <= duration <= 24h; a row whose duration is
\* exactly zero and that meets the other clauses is kept.
C2_ValidityAmended ==
  \A c \in Colors :
     /\ \A r \in CleanedRows(c) : ValidAmended(r)
     /\ \A r \in RawRows(c) : ~ValidAmended(r) => r \notin CleanedRows(c)
     /\ writer[c] > 0 =>
          \A r \in RawRows(c) :
             (ValidAmended(r) /\ Duration(r) = 0) => r \in CleanedRows(c)

\* C2 witness: the cleaned yellow table was built from a raw table holding a row
\* that breaks a clause and a row of duration zero; it holds only the second
C2_Witness ==
  /\ writer.yellow > 0
  /\ \E r \in RawRows("yellow") : ~ValidAmended(r) /\ r \notin CleanedRows("yellow")
  /\ \E r \in RawRows("yellow") : Duration(r) = 0 /\ r \in CleanedRows("yellow")

\* C3: when the cleaner has run twice in succession on the same raw tables, both
\* runs to the end, the three cleaned tables after the second run are the tables
\* after the first: the same rows, the same number of times.
C3_RerunSameTables ==
  (run = 2 /\ pc = "done" /\ ~exc /\ firstOut.ok) =>
     /\ yellow_trips_2024_clean = firstOut.yellow
     /\ green_trips_2024_clean = firstOut.green
     /\ trips_2024_clean = firstOut.trips

\* C3 witness: two complete runs over raw tables with a duplicated valid row and
\* a non-empty result
C3_Witness ==
  /\ run = 2 /\ pc = "done" /\ ~exc /\ firstOut.ok
  /\ \E v \in BagToSet(ValidGreen) : ValidGreen[v] >= 2
  /\ BagCardinality(trips_2024_clean) = 1

\* C8: after a cleaner run that failed, it is not the case that some of the
\* three cleaned tables hold this run's output while another still holds the
\* output of a previous run.
C8_NoPartialCommit ==
  (prog = "clean" /\ pc = "done" /\ exc) =>
     ~ /\ \E t \in DOMAIN writer : writer[t] = run
       /\ \E t \in DOMAIN writer : writer[t] > 0 /\ writer[t] < run

----------------------------------------------------------------------------
(* Properties of the analyzer *)

FeatureRows(c) == {r \in BagToSet(trips_features) : r.color = c}

BucketRows(c, b) == {r \in FeatureRows(c) : r[bucket_col] = b}

BucketSum(c, b) ==
  SumOver(BucketRows(c, b),
          [r \in BagToSet(trips_features) |-> trips_features[r] * r.trip_co2_kgs])

BucketCount(c, b) == SumOver(BucketRows(c, b), trips_features)

Buckets(c) == {r[bucket_col] : r \in FeatureRows(c)}

StatRows(k, c) == {s \in stats : s.kind = k /\ s.color = c}

\* C4: after the heavy/light query of any granularity, a category with rows has
\* exactly one heavy and one light row, each naming a populated bucket with
\* that bucket's average; the heavy average is >= and the light average <= the
\* average of every bucket of the category; with a single populated bucket the
\* two rows name the same bucket; a category without rows has no row.
C4_HeavyLight ==
  bucket_col # "" =>
    \A c \in Colors :
       IF FeatureRows(c) = {}
       THEN StatRows("heavy", c) = {} /\ StatRows("light", c) = {}
       ELSE /\ Cardinality(StatRows("heavy", c)) = 1
            /\ Cardinality(StatRows("light", c)) = 1
            /\ \A s \in StatRows("heavy", c) \cup StatRows("light", c) :
                 /\ s.bucket \in Buckets(c)
                 /\ s.avg_co2.num * BucketCount(c, s.bucket)
                      = BucketSum(c, s.bucket) * s.avg_co2.den
            /\ \A h \in StatRows("heavy", c) : \A b \in Buckets(c) :
                 h.avg_co2.num * BucketCount(c, b) >= BucketSum(c, b) * h.avg_co2.den
            /\ \A l \in StatRows("light", c) : \A b \in Buckets(c) :
                 l.avg_co2.num * BucketCount(c, b) <= BucketSum(c, b) * l.avg_co2.den
            /\ Cardinality(Buckets(c)) = 1 =>
                 \A h \in StatRows("heavy", c) : \A l \in StatRows("light", c) :
                    h.bucket = l.bucket

\* C4 witness: yellow has two buckets of different averages, and its heavy and
\* light rows differ; green has one bucket, named by both of its rows
C4_Witness ==
  /\ bucket_col = "week_of_year"
  /\ Cardinality(Buckets("yellow")) = 2
  /\ Cardinality(Buckets("green")) = 1
  /\ \E h \in StatRows("heavy", "yellow") : \E l \in StatRows("light", "yellow") :
        h.bucket # l.bucket /\ h.avg_co2 # l.avg_co2
  /\ \E h \in StatRows("heavy", "green") : \E l \in StatRows("light", "green") :
        h.bucket = l.bucket

\* C5: when buckets of a category tie on the extreme average, the heavy row and
\* the light row each name the lowest bucket id among the tied buckets.
C5_TieLowestBucket ==
  bucket_col # "" =>
    \A s \in stats :
       \A a \in Agg(trips_features, bucket_col) :
          (a.color = s.color /\ a.avg_co2 = s.avg_co2) => s.bucket <= a.bucket

\* C6: the max-emissions-trip query returns exactly one row for each category
\* with rows, none for a category without, and that row's trip_co2_kgs is the
\* maximum over the rows of the category.
C6_MaxTrip ==
  "max_trips" \in executed =>
    \A c \in Colors :
       LET res == {x \in max_trips : x.color = c}
       IN  IF FeatureRows(c) = {}
           THEN res = {}
           ELSE /\ Cardinality(res) = 1
                /\ \A x \in res :
                     /\ \A r \in FeatureRows(c) : x.trip_co2_kgs >= r.trip_co2_kgs
                     /\ \E r \in FeatureRows(c) :
                          /\ r.trip_co2_kgs = x.trip_co2_kgs
                          /\ r.pickup_datetime = x.pickup_datetime

\* C6 witness: one category with trips of emissions 5, 10 and 2; its row holds 10
C6_Witness ==
  /\ "max_trips" \in executed
  /\ {r.trip_co2_kgs : r \in FeatureRows("yellow")} = {2, 5, 10}
  /\ \E x \in max_trips : x.color = "yellow" /\ x.trip_co2_kgs = 10
  /\ Cardinality(max_trips) = 1

MonthSum(c, mo) ==
  SumOver({r \in FeatureRows(c) : r.month_of_year = mo},
          [r \in BagToSet(trips_features) |-> trips_features[r] * r.trip_co2_kgs])

\* C7: the reshaped monthly frame has the months 1..12, and for each category of
\* the features table the entry of a month is the sum of the category's
\* emissions in that month, an explicit zero where the category has no rows.
C7_MonthlyZeroFilled ==
  "monthly" \in executed =>
     /\ DOMAIN pivot = 1..12
     /\ \A c \in Colors : FeatureRows(c) # {} =>
          \A mo \in 1..12 :
             /\ c \in DOMAIN pivot[mo]
             /\ pivot[mo][c] = Num(MonthSum(c, mo))

----------------------------------------------------------------------------
(* Properties of the three main functions *)

\* C9: a run of the cleaner or of the analyzer in which a statement failed does
\* not return to its caller as a successful run does, with None.
C9_FailureSignalled ==
  (prog \in {"clean", "analysis"} /\ pc = "done" /\ exc) => ret # "None"

\* C10: when a run of the loader, the cleaner or the analyzer has returned, a
\* connection that was opened is closed, by one call of close, and when the
\* connection could not be opened no close was called.
C10_ClosedOnEveryExit ==
  pc = "done" =>
     /\ con \in {"None", "closed"}
     /\ con = "closed" => closeCalls = 1
     /\ con = "None" => closeCalls = 0

\* C10 witness: the analyzer returned after a failure of its plot step, with
\* the connection closed
C10_Witness ==
  /\ prog = "analysis" /\ pc = "done" /\ exc
  /\ "heavy_light" \in executed /\ bucket_col = "month_of_year"
  /\ con = "closed" /\ closeCalls = 1

----------------------------------------------------------------------------
(* Properties of the loader *)

\* C11: when load_one_color has returned for a color, whatever fetches failed
\* or succeeded, the raw table holds each month at most once: the month the
\* table was created from is in it once and no INSERT was issued for it, an
\* INSERT was issued at most once for every other month, and when no fetch of
\* the create pass succeeded there is no table and no INSERT was issued.
C11_EachMonthAtMostOnce ==
  \A c \in Colors : hist[c].returned =>
     /\ \A mo \in MONTHS : CopiesIn(mo, months[c]) <= 1
     /\ \A mo \in MONTHS : CopiesIn(mo, hist[c].inserts) <= 1
     /\ \A mo \in BagToSet(months[c]) :
          mo = hist[c].created \/ BagIn(mo, hist[c].inserts)
     /\ hist[c].created # 0 =>
          /\ exists[c]
          /\ CopiesIn(hist[c].created, months[c]) = 1
          /\ ~BagIn(hist[c].created, hist[c].inserts)
     /\ hist[c].created = 0 =>
          /\ ~exists[c]
          /\ months[c] = EmptyBag
          /\ hist[c].inserts = EmptyBag

\* C11 witness: the fetch of month 1 failed in the create pass and succeeded in
\* the append pass; the yellow table, created from month 2, holds both once,
\* and no fetch succeeded for green
C11_Witness ==
  /\ hist["yellow"].returned /\ hist["green"].returned
  /\ hist["yellow"].created = 2
  /\ CopiesIn(1, months["yellow"]) = 1
  /\ CopiesIn(2, months["yellow"]) = 1
  /\ hist["green"].created = 0 /\ ~exists["green"]

====
